---- MODULE Spec2Model ----
(***************************************************************************)
(* Model of the dependency-visualizer engine:                              *)
(*   - DependencyGraphBuilder (graph_builder.py): bounded breadth-first    *)
(*     discovery of a dependency graph through a lookup oracle;            *)
(*   - DependencyAnalyzer (dependency_analyzer.py): ordering algorithms    *)
(*     over a finished adjacency mapping.                                  *)
(* Package names are Python strings; they are modelled as sequences of     *)
(* code points so that substring tests, prefix tests and the string order  *)
(* used by list.sort() are computed, not assumed.                          *)
(***************************************************************************)
EXTENDS Integers, Sequences, FiniteSets, TLC

---------------------------------------------------------------------------
(* Bounds of the model *)

\* longest dependency list one lookup returns
MaxDeps == 2
\* total number of dependency entries the oracle hands out in one build
MaxEdges == 4
\* largest max_depth a builder is constructed with
MaxDepthLimit == 3

---------------------------------------------------------------------------
(* Package names as code-point sequences *)

NameA == <<65>>
NameB == <<66>>
NameC == <<67>>
NameD == <<68>>
\* "DH": contains the demo's filter substring "H" but does not start with it
NameDH == <<68, 72>>
\* "so:c"
NameSo == <<115, 111, 58, 99>>
\* "/l"
NameAbs == <<47, 108>>
\* "l.so.1"
NameVer == <<108, 46, 115, 111, 46, 49>>

\* names a lookup may return
DepNames == {NameA, NameB, NameC, NameDH, NameSo}
\* names a build may be started on
RootNames == {NameA, NameSo, NameAbs, NameVer}
\* filter_substring values: "", "H" (the demo's filter) and "A" (matches the root)
Filters == {<< >>, <<72>>, <<65>>}

SeqsUpTo(S, n) == UNION {[1..k -> S] : k \in 0..n}

---------------------------------------------------------------------------
(* Python string primitives *)

\* s.startswith(p)
StartsWith(s, p) ==
    /\ Len(p) <= Len(s)
    /\ \A i \in 1..Len(p) : s[i] = p[i]

\* sub in s
Contains(s, sub) ==
    \E off \in 0..(Len(s) - Len(sub)) :
        \A i \in 1..Len(sub) : s[off + i] = sub[i]

---------------------------------------------------------------------------
VARIABLES
    filter_substring,   \* builder configuration
    max_depth,          \* builder configuration
    start_package,      \* argument of bfs_build_graph
    pc,                 \* "init" | "loop" | "returned" | "raised"
    queue,              \* deque of [pkg, depth]
    visited,            \* set of names
    graph,              \* name -> filtered dependency list
    parent_map,         \* name -> name
    error,              \* exception that left bfs_build_graph ("none" if none)
    repo,               \* answers the lookup oracle has given: name -> [ok, deps]
    lookups,            \* sequence of names lookup was invoked on
    flagged,            \* CircularDependencyError objects constructed: [cur, dep, cycle]
    key_depth,          \* name -> depth of the queue entry that made it a key
    enqueued,           \* every [pkg, depth] ever appended to the queue
    discarded,          \* every [pkg, depth] dropped by the depth check
    an_graph,           \* analyzer input: insertion-ordered dict, a sequence of [k, v]
    an_pc,              \* "idle" or the name of the analyzer method that has run
    an_root,            \* start_package argument of the analyzer method
    an_result           \* value the analyzer method returned

bvars == <<filter_substring, max_depth, start_package, pc, queue, visited, graph,
           parent_map, error, repo, lookups, flagged, key_depth, enqueued, discarded>>

avars == <<an_graph, an_pc, an_root, an_result>>

vars == <<bvars, avars>>

EmptyMap == [x \in {} |-> << >>]

Put(f, k, v) == [x \in (DOMAIN f) \cup {k} |-> IF x = k THEN v ELSE f[x]]

---------------------------------------------------------------------------
(* DependencyGraphBuilder *)

\* should_skip_package testing the filter as a prefix instead of a substring
should_skip_package_prefix(package_name) ==
    \/ filter_substring # << >> /\ StartsWith(package_name, filter_substring)
    \/ StartsWith(package_name, <<115, 111, 58>>)
    \/ StartsWith(package_name, <<47>>)
    \/ Contains(package_name, <<46, 115, 111, 46>>)

\* should_skip_package testing '.so.' as a prefix instead of an infix
should_skip_package_noinfix(package_name) ==
    \/ filter_substring # << >> /\ Contains(package_name, filter_substring)
    \/ StartsWith(package_name, <<115, 111, 58>>)
    \/ StartsWith(package_name, <<47>>)
    \/ StartsWith(package_name, <<46, 115, 111, 46>>)

\* lines 21-28
should_skip_package(package_name) ==
    \/ filter_substring # << >> /\ Contains(package_name, filter_substring)
    \/ StartsWith(package_name, <<115, 111, 58>>)
    \/ StartsWith(package_name, <<47>>)
    \/ Contains(package_name, <<46, 115, 111, 46>>)

\* the list built by the loop of lines 55-60
RECURSIVE FilterDeps(_)
FilterDeps(deps) ==
    IF deps = << >> THEN << >>
    ELSE IF should_skip_package(Head(deps)) THEN FilterDeps(Tail(deps))
         ELSE <<Head(deps)>> \o FilterDeps(Tail(deps))

Reverse(s) == [i \in 1..Len(s) |-> s[Len(s) + 1 - i]]

\* the while loop of _find_cycle: cycle is the list built so far
RECURSIVE FindCycleWalk(_, _, _, _)
FindCycleWalk(pm, current, end, cycle) ==
    IF current = end THEN cycle
    ELSE IF current \in DOMAIN pm
         THEN FindCycleWalk(pm, pm[current], end, Append(cycle, current))
         ELSE Append(cycle, current)

_find_cycle(pm, start, end) ==
    Reverse(Append(FindCycleWalk(pm, start, end, <<end>>), end))

\* the condition under which line 66 declares a cycle
CycleCheck(vis, pm, dep) == dep \notin vis /\ dep \in DOMAIN pm

\* the loop of lines 64-71 over the rest of filtered_dependencies;
\* st = [pm, q, enq, cycle]; the loop stops at the first raise (cycle # <<>>)
RECURSIVE LinkDeps(_, _, _, _, _)
LinkDeps(deps, cur, depth, vis, st) ==
    IF deps = << >> THEN st
    ELSE LET dep == Head(deps) IN
         IF dep \in vis THEN LinkDeps(Tail(deps), cur, depth, vis, st)
         ELSE IF CycleCheck(vis, st.pm, dep)
              THEN [st EXCEPT !.cycle = _find_cycle(st.pm, cur, dep), !.dep = dep]
              ELSE LinkDeps(Tail(deps), cur, depth, vis,
                            [st EXCEPT !.pm = Put(st.pm, dep, cur),
                                       !.q = Append(st.q, [pkg |-> dep, depth |-> depth + 1]),
                                       !.enq = st.enq \cup {[pkg |-> dep, depth |-> depth + 1]}])

\* the depth check with >= in place of >
ExceedsDepth_atlimit(depth) == depth >= max_depth

\* the depth check off by one the other way
ExceedsDepth_late(depth) == depth > max_depth + 1

\* line 45
ExceedsDepth(depth) == depth > max_depth

\* an exception handler that only prints
RecordFailure_printonly(g, name) == g

\* lines 73-75: the handler of any exception raised inside the try
RecordFailure(g, name) == Put(g, name, << >>)

EdgesUsed == LET RECURSIVE Sum(_)
                 Sum(S) == IF S = {} THEN 0
                           ELSE LET x == CHOOSE y \in S : TRUE
                                IN Len(repo[x].deps) + Sum(S \ {x})
             IN Sum(DOMAIN repo)

\* answers get_dependencies_func may give for name: the one already given,
\* or any bounded list, or a failure
LookupAnswers(name) ==
    IF name \in DOMAIN repo THEN {repo[name]}
    ELSE LET left == MaxEdges - EdgesUsed
             longest == IF left < MaxDeps THEN left ELSE MaxDeps
         IN {[ok |-> TRUE, deps |-> d] : d \in SeqsUpTo(DepNames, longest)}
            \cup {[ok |-> FALSE, deps |-> << >>]}

Init ==
    /\ filter_substring \in Filters
    /\ max_depth \in 0..MaxDepthLimit
    /\ start_package \in RootNames
    /\ pc = "init"
    /\ queue = << >>
    /\ visited = {}
    /\ graph = EmptyMap
    /\ parent_map = EmptyMap
    /\ error = "none"
    /\ repo = EmptyMap
    /\ lookups = << >>
    /\ flagged = << >>
    /\ key_depth = EmptyMap
    /\ enqueued = {}
    /\ discarded = {}
    /\ an_graph = << >>
    /\ an_pc = "off"
    /\ an_root = << >>
    /\ an_result = << >>

\* lines 31-32: the root is filtered
StartFiltered ==
    /\ pc = "init"
    /\ should_skip_package(start_package)
    /\ pc' = "raised"
    /\ error' = "GraphBuilderError"
    /\ UNCHANGED <<filter_substring, max_depth, start_package, queue, visited, graph,
                   parent_map, repo, lookups, flagged, key_depth, enqueued, discarded>>
    /\ UNCHANGED avars

\* lines 34-37
StartTraversal ==
    /\ pc = "init"
    /\ ~should_skip_package(start_package)
    /\ pc' = "loop"
    /\ queue' = <<[pkg |-> start_package, depth |-> 0]>>
    /\ enqueued' = {[pkg |-> start_package, depth |-> 0]}
    /\ UNCHANGED <<filter_substring, max_depth, start_package, visited, graph,
                   parent_map, error, repo, lookups, flagged, key_depth, discarded>>
    /\ UNCHANGED avars

\* lines 40-47: an entry that is popped and dropped
Discard ==
    /\ pc = "loop"
    /\ queue # << >>
    /\ LET e == Head(queue) IN
        /\ e.pkg \in visited \/ ExceedsDepth(e.depth)
        /\ discarded' = IF e.pkg \in visited THEN discarded ELSE discarded \cup {e}
    /\ queue' = Tail(queue)
    /\ UNCHANGED <<filter_substring, max_depth, start_package, pc, visited, graph,
                   parent_map, error, repo, lookups, flagged, key_depth, enqueued>>
    /\ UNCHANGED avars

\* the visited set that never records the analyzed package
MarkVisited_forgot(vis, pkg) == vis

\* line 49: visited.add(current_package)
MarkVisited(vis, pkg) == vis \cup {pkg}

\* lines 40-75: one iteration that analyzes the popped package
Analyze ==
    /\ pc = "loop"
    /\ queue # << >>
    /\ LET e == Head(queue) IN
        /\ e.pkg \notin visited
        /\ ~ExceedsDepth(e.depth)
        /\ visited' = MarkVisited(visited, e.pkg)
        /\ key_depth' = Put(key_depth, e.pkg, e.depth)
        /\ lookups' = Append(lookups, e.pkg)
        /\ \E ans \in LookupAnswers(e.pkg) :
            /\ repo' = Put(repo, e.pkg, ans)
            /\ IF ~ans.ok
               THEN \* line 53 raised: lines 73-75
                    /\ graph' = RecordFailure(graph, e.pkg)
                    /\ queue' = Tail(queue)
                    /\ UNCHANGED <<parent_map, enqueued, flagged>>
               ELSE LET filtered_dependencies == FilterDeps(ans.deps)
                        st == LinkDeps(filtered_dependencies, e.pkg, e.depth, visited',
                                       [pm |-> parent_map, q |-> Tail(queue),
                                        enq |-> enqueued, cycle |-> << >>, dep |-> << >>])
                    IN  /\ parent_map' = st.pm
                        /\ queue' = st.q
                        /\ enqueued' = st.enq
                        /\ IF st.cycle = << >>
                           THEN /\ graph' = Put(graph, e.pkg, filtered_dependencies)
                                /\ UNCHANGED flagged
                           ELSE \* line 68 raised inside the try: lines 73-75
                                /\ graph' = RecordFailure(graph, e.pkg)
                                /\ flagged' = Append(flagged, [cur |-> e.pkg, dep |-> st.dep,
                                                               cycle |-> st.cycle])
    /\ UNCHANGED <<filter_substring, max_depth, start_package, pc, error, discarded>>
    /\ UNCHANGED avars

\* line 39 with an empty queue, line 77
Return ==
    /\ pc = "loop"
    /\ queue = << >>
    /\ pc' = "returned"
    /\ UNCHANGED <<filter_substring, max_depth, start_package, queue, visited, graph,
                   parent_map, error, repo, lookups, flagged, key_depth, enqueued, discarded>>
    /\ UNCHANGED avars

Next == StartFiltered \/ StartTraversal \/ Discard \/ Analyze \/ Return

Spec == Init /\ [][Next]_vars

\* the loop of lines 39-75 is sequential code: as long as a step is possible
\* (each lookup call returns or raises) the next step is taken
SpecLive == Init /\ [][Next]_vars /\ WF_vars(Next)

---------------------------------------------------------------------------
(* DependencyAnalyzer *)

\* bounds of the analyzer's input graphs
MaxAnDeps == 2
MaxAnEdges == 4

AnNames == {NameA, NameB, NameC, NameD}

\* a < b for Python strings: lexicographic by code point
StrLess(a, b) ==
    \E i \in 1..(Len(b)) :
        /\ i <= Len(a) + 1
        /\ \A j \in 1..(i - 1) : a[j] = b[j]
        /\ \/ i = Len(a) + 1
           \/ i <= Len(a) /\ a[i] < b[i]

\* list.sort() on a list of strings
RECURSIVE InsertSorted(_, _)
InsertSorted(x, s) ==
    IF s = << >> THEN <<x>>
    ELSE IF StrLess(x, Head(s)) THEN <<x>> \o s
         ELSE <<Head(s)>> \o InsertSorted(x, Tail(s))

RECURSIVE SortNames(_)
SortNames(s) == IF s = << >> THEN << >> ELSE InsertSorted(Head(s), SortNames(Tail(s)))

Range(s) == {s[i] : i \in 1..Len(s)}

\* list(graph): the keys in insertion order
Keys(g) == [i \in 1..Len(g) |-> g[i].k]

\* graph.get(name, [])
Get(g, name) ==
    IF \E i \in 1..Len(g) : g[i].k = name
    THEN g[CHOOSE i \in 1..Len(g) : g[i].k = name].v
    ELSE << >>

\* lines 12-19: the defaultdict after both loops (absent entries read as 0)
RECURSIVE CountIn(_, _)
CountIn(x, s) == IF s = << >> THEN 0
                 ELSE (IF Head(s) = x THEN 1 ELSE 0) + CountIn(x, Tail(s))

RECURSIVE InDegreeOf(_, _)
InDegreeOf(g, x) == IF g = << >> THEN 0
                    ELSE CountIn(x, Head(g).v) + InDegreeOf(Tail(g), x)

in_degree(g) == [x \in AnNames |-> InDegreeOf(g, x)]

\* lines 28-31: the for loop over the neighbours of the dequeued node
RECURSIVE Relax(_, _, _)
Relax(neighbors, q, deg) ==
    IF neighbors = << >> THEN [q |-> q, deg |-> deg]
    ELSE LET n == Head(neighbors)
             d == [deg EXCEPT ![n] = deg[n] - 1]
         IN Relax(Tail(neighbors), IF d[n] = 0 THEN Append(q, n) ELSE q, d)

\* lines 24-31
RECURSIVE KahnLoop(_, _, _, _)
KahnLoop(g, q, result, deg) ==
    IF q = << >> THEN result
    ELSE LET current == Head(q)
             st == Relax(Get(g, current), Tail(q), deg)
         IN KahnLoop(g, st.q, Append(result, current), st.deg)

topological_sort(g) ==
    LET deg == in_degree(g)
        seed == SelectSeq(Keys(g), LAMBDA node : deg[node] = 0)
        result == KahnLoop(g, seed, << >>, deg)
    IN IF Len(result) # Len(g)
       THEN result \o SelectSeq(Keys(g), LAMBDA node : node \notin Range(result))
       ELSE result

\* lines 52-60: the for loop over one level; n entries remain to be popped
RECURSIVE BfsLevel(_, _, _, _, _)
BfsLevel(g, n, q, vis, level) ==
    IF n = 0 THEN [q |-> q, vis |-> vis, level |-> level]
    ELSE LET current == Head(q) IN
         IF current \notin vis
         THEN LET vis2 == vis \cup {current}
              IN BfsLevel(g, n - 1,
                          Tail(q) \o SelectSeq(Get(g, current), LAMBDA dep : dep \notin vis2),
                          vis2, Append(level, current))
         ELSE BfsLevel(g, n - 1, Tail(q), vis, level)

\* a level appended in discovery order
SortLevel_unsorted(level_packages) == level_packages

\* line 62
SortLevel(level_packages) == SortNames(level_packages)

\* lines 48-63
RECURSIVE BfsLoop(_, _, _, _)
BfsLoop(g, q, vis, load_order) ==
    IF q = << >> THEN load_order
    ELSE LET st == BfsLevel(g, Len(q), q, vis, << >>)
         IN BfsLoop(g, st.q, st.vis, load_order \o SortLevel(st.level))

bfs_load_order(g, start) == BfsLoop(g, <<start>>, {}, << >>)

(* Input graphs: the dict handed to the analyzer is built by insertions; it
   has at most MaxAnEdges dependency entries in all, lists of at most
   MaxAnDeps names, and its keys are inserted in a rotation of their sorted
   order (so that every key can be the first one). *)
Descents(s) ==
    Cardinality({i \in 1..Len(s) :
                    ~StrLess(s[i], s[IF i = Len(s) THEN 1 ELSE i + 1])})

RECURSIVE EntriesIn(_)
EntriesIn(g) == IF g = << >> THEN 0 ELSE Len(Head(g).v) + EntriesIn(Tail(g))

InitAn ==
    /\ filter_substring = << >>
    /\ max_depth = 0
    /\ start_package = << >>
    /\ pc = "off"
    /\ queue = << >>
    /\ visited = {}
    /\ graph = EmptyMap
    /\ parent_map = EmptyMap
    /\ error = "none"
    /\ repo = EmptyMap
    /\ lookups = << >>
    /\ flagged = << >>
    /\ key_depth = EmptyMap
    /\ enqueued = {}
    /\ discarded = {}
    /\ an_graph = << >>
    /\ an_pc = "idle"
    /\ an_root = << >>
    /\ an_result = << >>

\* graph[key] = deps for a new key
InsertEntry ==
    /\ an_pc = "idle"
    /\ \E key \in AnNames \ Range(Keys(an_graph)), deps \in SeqsUpTo(AnNames, MaxAnDeps) :
        /\ EntriesIn(an_graph) + Len(deps) <= MaxAnEdges
        /\ Descents(Append(Keys(an_graph), key)) <= 1
        /\ an_graph' = Append(an_graph, [k |-> key, v |-> deps])
    /\ UNCHANGED <<an_pc, an_root, an_result, bvars>>

TopologicalSort ==
    /\ an_pc = "idle"
    /\ an_pc' = "topological_sort"
    /\ an_result' = topological_sort(an_graph)
    /\ UNCHANGED <<an_graph, an_root, bvars>>

BfsLoadOrder ==
    /\ an_pc = "idle"
    /\ \E start \in AnNames :
        /\ an_root' = start
        /\ an_result' = bfs_load_order(an_graph, start)
    /\ an_pc' = "bfs_load_order"
    /\ UNCHANGED <<an_graph, bvars>>

NextAn == InsertEntry \/ TopologicalSort \/ BfsLoadOrder

SpecAn == InitAn /\ [][NextAn]_vars

---------------------------------------------------------------------------
(* DependencyAnalyzer: dfs_load_order and find_cycles *)

\* load_order.append(package) at the front instead of the back
Finish_front(load_order, package) == <<package>> \o load_order

\* line 79
Finish(load_order, package) == Append(load_order, package)

\* lines 71-79: the nested function dfs; st = [vis, order] are the closure's
\* visited and load_order
RECURSIVE Dfs(_, _, _)
RECURSIVE DfsDeps(_, _, _)
Dfs(g, package, st) ==
    IF package \in st.vis THEN st
    ELSE LET st2 == DfsDeps(g, Get(g, package),
                            [vis |-> st.vis \cup {package}, order |-> st.order])
         IN [vis |-> st2.vis, order |-> Finish(st2.order, package)]

\* lines 76-77: the for loop over the dependencies
DfsDeps(g, deps, st) ==
    IF deps = << >> THEN st
    ELSE DfsDeps(g, Tail(deps), Dfs(g, Head(deps), st))

dfs_load_order(g, start) == Dfs(g, start, [vis |-> {}, order |-> << >>]).order

DfsLoadOrder ==
    /\ an_pc = "idle"
    /\ \E start \in AnNames :
        /\ an_root' = start
        /\ an_result' = dfs_load_order(an_graph, start)
    /\ an_pc' = "dfs_load_order"
    /\ UNCHANGED <<an_graph, bvars>>

NextDfs == InsertEntry \/ DfsLoadOrder

SpecDfs == InitAn /\ [][NextDfs]_vars

\* path.index(node)
IndexOf(path, node) == CHOOSE i \in 1..Len(path) :
                          path[i] = node /\ \A j \in 1..(i - 1) : path[j] # node

\* the slice taken one position too late
CycleSlice_late(path, node) == SubSeq(path, IndexOf(path, node) + 1, Len(path))

\* the whole path in place of the slice
CycleSlice_whole(path, node) == path

\* lines 146-147: path[cycle_start:]
CycleSlice(path, node) == SubSeq(path, IndexOf(path, node), Len(path))

\* lines 144-159: the nested function dfs_cycle; st = [vis, stack, cycles] are
\* the closure's visited, recursion_stack and cycles
RECURSIVE DfsCycle(_, _, _, _)
RECURSIVE DfsCycleDeps(_, _, _, _)
DfsCycle(g, node, path, st) ==
    IF node \in st.stack
    THEN [st EXCEPT !.cycles = Append(st.cycles, CycleSlice(path, node))]
    ELSE IF node \in st.vis THEN st
    ELSE LET st2 == DfsCycleDeps(g, Get(g, node), path \o <<node>>,
                                 [st EXCEPT !.vis = st.vis \cup {node},
                                            !.stack = st.stack \cup {node}])
         IN [st2 EXCEPT !.stack = st2.stack \ {node}]

\* lines 156-157: the for loop over the neighbours
DfsCycleDeps(g, neighbors, path, st) ==
    IF neighbors = << >> THEN st
    ELSE DfsCycleDeps(g, Tail(neighbors), path, DfsCycle(g, Head(neighbors), path, st))

\* lines 161-163: the scan over the keys
RECURSIVE CycleScan(_, _, _)
CycleScan(g, nodes, st) ==
    IF nodes = << >> THEN st
    ELSE CycleScan(g, Tail(nodes),
                   IF Head(nodes) \notin st.vis THEN DfsCycle(g, Head(nodes), << >>, st)
                   ELSE st)

find_cycles(g) == CycleScan(g, Keys(g), [vis |-> {}, stack |-> {}, cycles |-> << >>]).cycles

FindCycles ==
    /\ an_pc = "idle"
    /\ an_pc' = "find_cycles"
    /\ an_result' = find_cycles(an_graph)
    /\ UNCHANGED <<an_graph, an_root, bvars>>

NextCycles == InsertEntry \/ FindCycles

SpecCycles == InitAn /\ [][NextCycles]_vars

---------------------------------------------------------------------------
(* DependencyAnalyzer: calculate_dependency_levels *)

\* a child labelled with its parent's level
ChildLevel_same(level) == level

\* line 135: level + 1
ChildLevel(level) == level + 1

\* levels[level].append(package) on a defaultdict(list)
AppendAt(levels, level, package) ==
    Put(levels, level, (IF level \in DOMAIN levels THEN levels[level] ELSE << >>) \o <<package>>)

\* lines 125-135; q is a deque of [pkg, level]
RECURSIVE LevelsLoop(_, _, _, _)
LevelsLoop(g, q, vis, levels) ==
    IF q = << >> THEN levels
    ELSE LET e == Head(q) IN
         IF e.pkg \in vis THEN LevelsLoop(g, Tail(q), vis, levels)
         ELSE LET vis2 == vis \cup {e.pkg}
                  deps == SelectSeq(Get(g, e.pkg), LAMBDA dep : dep \notin vis2)
                  more == [i \in 1..Len(deps) |->
                              [pkg |-> deps[i], level |-> ChildLevel(e.level)]]
              IN LevelsLoop(g, Tail(q) \o more, vis2, AppendAt(levels, e.level, e.pkg))

calculate_dependency_levels(g, start) ==
    LevelsLoop(g, <<[pkg |-> start, level |-> 0]>>, {}, EmptyMap)

CalculateDependencyLevels ==
    /\ an_pc = "idle"
    /\ \E start \in AnNames :
        /\ an_root' = start
        /\ an_result' = calculate_dependency_levels(an_graph, start)
    /\ an_pc' = "calculate_dependency_levels"
    /\ UNCHANGED <<an_graph, bvars>>

NextLevels == InsertEntry \/ CalculateDependencyLevels

SpecLevels == InitAn /\ [][NextLevels]_vars

---------------------------------------------------------------------------
(* Properties of DependencyGraphBuilder, checked under Spec *)

AllNames == DepNames \cup RootNames

\* x -> y is an edge of the dependency data the oracle has revealed
DataEdge(x, y) == x \in DOMAIN repo /\ repo[x].ok /\ y \in Range(repo[x].deps)

\* simple directed cycles of the dependency data that start at the root
RootCycles ==
    {p \in UNION {[1..n -> DOMAIN repo] : n \in 1..Cardinality(DOMAIN repo)} :
        /\ p[1] = start_package
        /\ \A i, j \in 1..Len(p) : i # j => p[i] # p[j]
        /\ \A i \in 1..(Len(p) - 1) : DataEdge(p[i], p[i + 1])
        /\ DataEdge(p[Len(p)], p[1])}

\* c starts and ends at the same package and follows edges of the data
ClosedWalk(c) ==
    /\ Len(c) >= 2
    /\ c[1] = c[Len(c)]
    /\ \A i \in 1..(Len(c) - 1) : DataEdge(c[i], c[i + 1])

Finished == pc \in {"returned", "raised"}

\* C1: when the root lies on a directed cycle of the dependency data (of two
\* or more packages, as A: B, B: A), the build ends with
\* CircularDependencyError, and the path the error carries is a closed walk
\* of the data that contains every package of such a cycle.
C1_TrueCycleRaises ==
    (Finished /\ \E p \in RootCycles : Len(p) >= 2) =>
        /\ error = "CircularDependencyError"
        /\ flagged # << >>
        /\ LET c == flagged[Len(flagged)].cycle
           IN /\ ClosedWalk(c)
              /\ \E p \in RootCycles : Range(p) \subseteq Range(c)

\* C2: once a CircularDependencyError has been constructed at the parent-map
\* check, the build has been aborted with that error: nothing more is
\* dequeued or queried and no graph is returned.
C2_CycleErrorPropagates ==
    flagged # << >> => (pc = "raised" /\ error = "CircularDependencyError")

\* C4: in the returned graph the value of every key whose lookup succeeded is
\* the lookup's answer with exactly the skipped names removed, order kept.
C4_ValuesAreFilteredLookups ==
    pc = "returned" =>
        \A k \in DOMAIN graph :
            (k \in DOMAIN repo /\ repo[k].ok) => graph[k] = FilterDeps(repo[k].deps)

NumPackages ==
    Cardinality({start_package} \cup DOMAIN repo
                \cup UNION {Range(repo[k].deps) : k \in DOMAIN repo})

\* names that occur in a dependency list of the graph without being a key
Dangling == {d \in AllNames : /\ d \notin DOMAIN graph
                              /\ \E k \in DOMAIN graph : d \in Range(graph[k])}

\* C5: in a returned graph a name that is a value but not a key was enqueued,
\* and only at depths above max_depth; with an empty filter and max_depth at
\* least the number of packages there is no such name.
C5_Closure ==
    pc = "returned" =>
        /\ \A d \in Dangling :
              /\ \E e \in enqueued : e.pkg = d
              /\ \A e \in enqueued : e.pkg = d => e.depth > max_depth
        /\ (filter_substring = << >> /\ max_depth >= NumPackages) => Dangling = {}

C5_Witness ==
    /\ pc = "returned"
    /\ filter_substring = << >>
    /\ max_depth >= NumPackages
    /\ Cardinality(DOMAIN graph) >= 3
    /\ \E k \in DOMAIN graph : Len(graph[k]) = 2

\* C6: with a non-empty filter_substring no name containing it is a key of
\* the returned graph or occurs in one of its dependency lists.
C6_FilteredNamesAbsent ==
    (pc = "returned" /\ filter_substring # << >>) =>
        \A k \in DOMAIN graph :
            /\ ~Contains(k, filter_substring)
            /\ \A d \in Range(graph[k]) : ~Contains(d, filter_substring)

C6_Witness ==
    /\ pc = "returned"
    /\ filter_substring # << >>
    /\ \E k \in DOMAIN repo :
          /\ \E d \in Range(repo[k].deps) : Contains(d, filter_substring)
          /\ graph[k] # << >>
    /\ \E k \in DOMAIN repo : ~repo[k].ok

\* C7: every key was dequeued at a depth of at most max_depth; an entry
\* dropped by the depth check is deeper than max_depth, its name is not
\* visited, was never looked up, is no key and is nobody's parent.
C7_DepthLimit ==
    /\ \A k \in DOMAIN graph : k \in DOMAIN key_depth /\ key_depth[k] <= max_depth
    /\ \A e \in discarded :
          /\ e.depth > max_depth
          /\ e.pkg \notin visited
          /\ e.pkg \notin Range(lookups)
          /\ e.pkg \notin DOMAIN graph
          /\ \A x \in DOMAIN parent_map : parent_map[x] # e.pkg

C7_Witness ==
    /\ pc = "returned"
    /\ max_depth = 2
    /\ \E e \in discarded : \E k \in DOMAIN graph : e.pkg \in Range(graph[k])
    /\ \E k \in DOMAIN graph : key_depth[k] = 2

\* the step in which lookup raises for the dequeued package
LookupFailsStep ==
    /\ pc = "loop"
    /\ lookups' # lookups
    /\ ~repo'[Head(queue).pkg].ok

\* C8: a failing lookup makes the package a key with an empty list and
\* changes nothing else: the build goes on with the rest of the queue, the
\* other keys keep their values, and the returned graph holds every package
\* that was enqueued within max_depth.
C8_LookupFailureIsLocal ==
    /\ [][LookupFailsStep =>
            /\ pc' = "loop"
            /\ error' = "none"
            /\ queue' = Tail(queue)
            /\ DOMAIN graph' = DOMAIN graph \cup {Head(queue).pkg}
            /\ graph'[Head(queue).pkg] = << >>
            /\ \A k \in DOMAIN graph : graph'[k] = graph[k]]_vars
    /\ [](pc = "returned" =>
            /\ queue = << >>
            /\ \A n \in DOMAIN repo : ~repo[n].ok => (n \in DOMAIN graph /\ graph[n] = << >>)
            /\ \A e \in enqueued : e.pkg \in DOMAIN graph \/ e \in discarded)

C8_Witness ==
    /\ pc = "returned"
    /\ \E i \in 1..Len(lookups) :
          /\ ~repo[lookups[i]].ok
          /\ i < Len(lookups)
          /\ graph[lookups[i]] = << >>
    /\ \E k \in DOMAIN graph : graph[k] # << >>

\* the filtering rule as the specification words it
RootMatchesRule ==
    \/ filter_substring # << >> /\ Contains(start_package, filter_substring)
    \/ StartsWith(start_package, <<115, 111, 58>>)
    \/ StartsWith(start_package, <<47>>)
    \/ Contains(start_package, <<46, 115, 111, 46>>)

\* C9: a root that matches the filtering rule makes the build fail with an
\* error before any traversal: no lookup, no queue entry, no graph.
C9_FilteredRootFails ==
    (RootMatchesRule /\ pc # "init") =>
        /\ pc = "raised"
        /\ error = "GraphBuilderError"
        /\ lookups = << >>
        /\ queue = << >>
        /\ visited = {}
        /\ graph = EmptyMap

C9_Witness ==
    /\ pc = "raised"
    /\ error = "GraphBuilderError"
    /\ Contains(start_package, <<46, 115, 111, 46>>)

---------------------------------------------------------------------------
(* Properties of DependencyAnalyzer, checked under SpecAn *)

AnSucc(g, S) == UNION {Range(Get(g, x)) : x \in S}

\* names reachable from S by one or more edges
RECURSIVE AnReachPlus(_, _, _)
AnReachPlus(g, frontier, seen) ==
    LET next == AnSucc(g, frontier) \ seen
    IN IF next = {} THEN seen ELSE AnReachPlus(g, next, seen \cup next)

AnAcyclic(g) == \A n \in AnNames : n \notin AnReachPlus(g, {n}, {})

AnClosed(g) == \A i \in 1..Len(g) : Range(g[i].v) \subseteq Range(Keys(g))

Pos(r, x) == CHOOSE i \in 1..Len(r) : r[i] = x

\* C3: on an acyclic graph whose dependencies are all keys, topological_sort
\* returns every key exactly once, each dependency before its dependents.
C3_TopologicalOrder ==
    (an_pc = "topological_sort" /\ AnAcyclic(an_graph) /\ AnClosed(an_graph)) =>
        /\ Len(an_result) = Len(an_graph)
        /\ Range(an_result) = Range(Keys(an_graph))
        /\ \A i \in 1..Len(an_graph) : \A d \in Range(an_graph[i].v) :
              Pos(an_result, d) < Pos(an_result, an_graph[i].k)

\* length of a shortest path from root to n, -1 if there is none
RECURSIVE DistFrom(_, _, _, _, _)
DistFrom(g, frontier, seen, k, n) ==
    IF n \in frontier THEN k
    ELSE LET next == AnSucc(g, frontier) \ seen
         IN IF next = {} THEN 0 - 1 ELSE DistFrom(g, next, seen \cup next, k + 1, n)

Dist(g, root, n) == DistFrom(g, {root}, {root}, 0, n)

Diamond == <<[k |-> NameA, v |-> <<NameB, NameC>>], [k |-> NameB, v |-> <<NameD>>],
             [k |-> NameC, v |-> <<NameD>>], [k |-> NameD, v |-> << >>]>>

\* C10: bfs_load_order returns the names reachable from the root, each once,
\* by non-decreasing distance from the root and, at equal distance, in
\* string order; on the diamond fixture from A it returns [A, B, C, D].
C10_BfsLoadOrder ==
    an_pc = "bfs_load_order" =>
        /\ Range(an_result) = {n \in AnNames : Dist(an_graph, an_root, n) >= 0}
        /\ Cardinality(Range(an_result)) = Len(an_result)
        /\ \A i, j \in 1..Len(an_result) : i < j =>
              LET di == Dist(an_graph, an_root, an_result[i])
                  dj == Dist(an_graph, an_root, an_result[j])
              IN di < dj \/ (di = dj /\ StrLess(an_result[i], an_result[j]))
        /\ (an_graph = Diamond /\ an_root = NameA) =>
              an_result = <<NameA, NameB, NameC, NameD>>

C10_Witness ==
    /\ an_pc = "bfs_load_order"
    /\ an_root = NameA
    /\ an_graph = <<[k |-> NameA, v |-> <<NameC, NameB>>], [k |-> NameB, v |-> <<NameD>>],
                    [k |-> NameC, v |-> <<NameD>>], [k |-> NameD, v |-> << >>]>>
    /\ an_result = <<NameA, NameB, NameC, NameD>>

---------------------------------------------------------------------------
(* Properties of dfs_load_order, checked under SpecDfs, and of find_cycles,
   checked under SpecCycles *)

\* names reachable from n by zero or more edges
AnReachStar(g, n) == AnReachPlus(g, {n}, {n})

DiamondSwapped ==
    <<[k |-> NameA, v |-> <<NameC, NameB>>], [k |-> NameB, v |-> <<NameD>>],
      [k |-> NameC, v |-> <<NameD>>], [k |-> NameD, v |-> << >>]>>

\* C11: on an acyclic graph dfs_load_order returns the names reachable from
\* the root, each once, every dependency before its dependent and the root
\* last; of two entries of the root's list the earlier one comes first unless
\* the later one is reached from it or from an entry before it; on the diamond
\* from A the result is
\* [D, B, C, A], and [D, C, B, A] when A's list is stored as C B.
C11_DfsPostorder ==
    (an_pc = "dfs_load_order" /\ AnAcyclic(an_graph)) =>
        /\ Range(an_result) = AnReachStar(an_graph, an_root)
        /\ Cardinality(Range(an_result)) = Len(an_result)
        /\ an_result[Len(an_result)] = an_root
        /\ \A p \in Range(an_result) : \A d \in Range(Get(an_graph, p)) :
              Pos(an_result, d) < Pos(an_result, p)
        /\ LET sib == Get(an_graph, an_root)
           IN \A i, j \in 1..Len(sib) :
                 (i < j /\ \A k \in 1..i : sib[j] \notin AnReachStar(an_graph, sib[k])) =>
                     Pos(an_result, sib[i]) < Pos(an_result, sib[j])
        /\ (an_graph = Diamond /\ an_root = NameA) =>
              an_result = <<NameD, NameB, NameC, NameA>>
        /\ (an_graph = DiamondSwapped /\ an_root = NameA) =>
              an_result = <<NameD, NameC, NameB, NameA>>

C11_Witness ==
    /\ an_pc = "dfs_load_order"
    /\ an_root = NameA
    /\ an_graph = Diamond
    /\ an_result = <<NameD, NameB, NameC, NameA>>

\* names that lie on some directed cycle of g
AnCyclicNames(g) == {n \in AnNames : n \in AnReachPlus(g, {n}, {})}

\* the simple directed cycles of g, as sequences of distinct names
AnSimpleCycles(g) ==
    {p \in UNION {[1..n -> AnCyclicNames(g)] : n \in 1..Cardinality(AnCyclicNames(g))} :
        /\ \A i, j \in 1..Len(p) : i # j => p[i] # p[j]
        /\ \A i \in 1..Len(p) :
              p[IF i = Len(p) THEN 1 ELSE i + 1] \in Range(Get(g, p[i]))}

\* the node sets of the loops of g
AnLoops(g) == {Range(p) : p \in AnSimpleCycles(g)}

\* the node sets of the cycles find_cycles returned
ReportedLoops == {Range(an_result[i]) : i \in 1..Len(an_result)}

\* C12 as stated: for every loop of the graph, find_cycles returns a cycle
\* whose set of members is exactly the set of nodes of that loop.
C12_EveryLoopReported ==
    an_pc = "find_cycles" => AnLoops(an_graph) \subseteq ReportedLoops

\* C12 as amended: when the graph has a single loop, find_cycles returns a
\* cycle whose set of members is exactly the set of nodes of that loop,
\* whichever key the scan of the keys starts from.
C12_OnlyLoopReported ==
    (an_pc = "find_cycles" /\ Cardinality(AnLoops(an_graph)) = 1) =>
        AnLoops(an_graph) \subseteq ReportedLoops

C12_Witness ==
    /\ an_pc = "find_cycles"
    /\ AnLoops(an_graph) = {{NameA, NameB, NameC}}
    /\ Len(an_graph) = 4
    /\ an_graph[1].k = NameB
    /\ an_result = <<<<NameB, NameC, NameA>>>>

\* a closed walk of g: every entry has an edge to the next, the last to the first
AnClosedWalk(g, c) ==
    /\ Len(c) >= 1
    /\ \A i \in 1..Len(c) : c[IF i = Len(c) THEN 1 ELSE i + 1] \in Range(Get(g, c[i]))

\* C17: find_cycles returns the empty list exactly when the graph has no
\* directed cycle, and every sequence it returns is a closed walk of the graph.
C17_FindCyclesExact ==
    an_pc = "find_cycles" =>
        /\ (an_result = << >>) <=> AnAcyclic(an_graph)
        /\ \A i \in 1..Len(an_result) : AnClosedWalk(an_graph, an_result[i])

\* a cycle in a component the first key does not reach, with a dependency
\* that is no key
C17_Witness ==
    /\ an_pc = "find_cycles"
    /\ Len(an_graph) = 3
    /\ an_graph[1] = [k |-> NameA, v |-> <<NameD>>]
    /\ an_graph[2] = [k |-> NameB, v |-> <<NameC>>]
    /\ an_graph[3] = [k |-> NameC, v |-> <<NameB>>]
    /\ an_result = <<<<NameB, NameC>>>>

---------------------------------------------------------------------------
(* Properties of topological_sort on cyclic graphs, checked under SpecAn *)

\* C13: on a graph with a cycle topological_sort returns a list whose length
\* differs from the number of keys (it cannot raise: the model has no
\* raising path).
C13_LengthMismatchSignalsCycle ==
    (an_pc = "topological_sort" /\ ~AnAcyclic(an_graph)) =>
        Len(an_result) # Len(an_graph)

---------------------------------------------------------------------------
(* Properties of calculate_dependency_levels, checked under SpecLevels *)

\* C14: every name reachable from the root is in exactly one level, once, and
\* that level is its shortest-path distance from the root; no other name is
\* in any level.
C14_LevelsAreDistances ==
    an_pc = "calculate_dependency_levels" =>
        /\ \A l \in DOMAIN an_result :
              /\ Cardinality(Range(an_result[l])) = Len(an_result[l])
              /\ \A n \in Range(an_result[l]) : Dist(an_graph, an_root, n) = l
        /\ \A n \in AnNames :
              LET d == Dist(an_graph, an_root, n)
              IN d >= 0 => (d \in DOMAIN an_result /\ n \in Range(an_result[d]))

\* D is reached at distance 1 and again through the longer path A -> B -> D
C14_Witness ==
    /\ an_pc = "calculate_dependency_levels"
    /\ an_root = NameA
    /\ Get(an_graph, NameA) = <<NameB, NameD>>
    /\ Get(an_graph, NameB) = <<NameD, NameC>>
    /\ an_result = (0 :> <<NameA>> @@ 1 :> <<NameB, NameD>> @@ 2 :> <<NameC>>)

---------------------------------------------------------------------------
(* Properties of the builder's cycle check, checked under Spec *)

\* names reachable from S by one or more edges of the revealed data
RECURSIVE DataReachPlus(_, _)
DataReachPlus(frontier, seen) ==
    LET next == {y \in AllNames : \E x \in frontier : DataEdge(x, y)} \ seen
    IN IF next = {} THEN seen ELSE DataReachPlus(next, seen \cup next)

\* the build has returned and the oracle was asked about every name of the
\* data: no entry was dropped for depth, no dependency was filtered, no
\* lookup failed
DataComplete ==
    /\ pc = "returned"
    /\ discarded = {}
    /\ \A k \in DOMAIN repo :
          repo[k].ok /\ \A d \in Range(repo[k].deps) : d \in DOMAIN repo

\* C15: a dependency the parent-map check flags lies on a directed cycle of
\* the dependency data; on acyclic data nothing is flagged.
C15_FlaggedIsOnCycle ==
    DataComplete =>
        \A i \in 1..Len(flagged) : flagged[i].dep \in DataReachPlus({flagged[i].dep}, {})

\* C16: the path of a flagged cycle follows direct-dependency edges of the
\* data (x is followed by y only if y is in lookup(x)) and closes on the
\* conflicting dependency.
C16_FlaggedPathIsClosedWalk ==
    DataComplete =>
        \A i \in 1..Len(flagged) :
            /\ ClosedWalk(flagged[i].cycle)
            /\ flagged[i].cycle[1] = flagged[i].dep


\* no package name occurs twice in the sequence of lookup calls
LookupsDistinct ==
    \A i, j \in 1..Len(lookups) : lookups[i] = lookups[j] => i = j

\* C18: for any dependency data (cyclic or not, with failing lookups or not)
\* and any max_depth, the build eventually finishes; lookup is called at most
\* once per package name, so the number of querying iterations never exceeds
\* the number of distinct names
C18_TerminatesWithBoundedLookups ==
    /\ <>Finished
    /\ [](LookupsDistinct /\ Len(lookups) <= NumPackages)

\* a build that returned over data with a cycle through the root and with a
\* lookup that failed
C18_Witness ==
    /\ pc = "returned"
    /\ \E p \in RootCycles : Len(p) >= 2
    /\ \E k \in DOMAIN repo : ~repo[k].ok
    /\ Len(lookups) >= 3

====
